---- MODULE Spec2Model ----
(***************************************************************************)
(* Comment pipeline of byambaa1982/facebook: ingestion of Facebook comment *)
(* snapshots (routes/comment.py, routes/display.py), sentiment analysis    *)
(* (agents/review.py), the two reply agents (agents/reply.py and           *)
(* agents/reply_standalone.py) and their orphan cleanup, all working on    *)
(* one UnQLite key-value store.                                            *)
(*                                                                         *)
(* Ids are sequences of digits so that Python's substring tests            *)
(* (`comment_id in key_str`, `comment_id in str(data)`) can be computed.   *)
(* A store key is the record [kind, content, post, cid, ts]; unused parts  *)
(* are <<>> / 0.                                                           *)
(*                                                                         *)
(* The specifications share the variables:                                 *)
(*   Spec         - the ingestion entry points on a new store;             *)
(*   SpecBulk     - the bulk endpoint on stores with two posted contents;  *)
(*   SpecAnalyze  - analyze_all_comments runs on the stores ingestion      *)
(*                  leaves behind;                                         *)
(*   SpecReply    - reply runs and cleanups of both agents, one after      *)
(*                  another, on the stores ingestion and analysis leave    *)
(*                  behind;                                                *)
(*   SpecRace     - two invocations of the routes reply agent interleaved; *)
(*   SpecSweep    - cleanup_orphaned_comments of both agents;              *)
(*   SpecNotFound - the two is_comment_not_found_error predicates on the   *)
(*                  error envelopes;                                       *)
(*   SpecBlank    - the two classify_comment_type functions on comment     *)
(*                  texts;                                                 *)
(*   SpecRepeat   - runs of the routes reply agent repeated without end;   *)
(*   SpecLong     - the cleanups on stores whose comment ids contain one   *)
(*                  another;                                               *)
(*   SpecSeq      - runs of the routes reply agent one after another;      *)
(*   SpecAlt      - runs of the two reply agents one after another;        *)
(*   SpecReingest - the ingestion entry points on analysed stores.         *)
(* Writes to the store may fail where the code tests for it; reads of the  *)
(* local store succeed.                                                    *)
(***************************************************************************)
EXTENDS Integers, Sequences, FiniteSets, TLC

\* ------------------------------------------------------------------ bounds
\* Top-level operations per behaviour, by class: ingestion requests,
\* analyze_all_comments runs, reply_to_comments runs, cleanup calls.
MaxIngest == 3
MaxAnalyze == 2
MaxRuns == 1
MaxCleanups == 2
\* The max_replies argument is drawn from 0..MaxRepliesArg.
MaxRaceRuns == 2
MaxSweeps == 1
\* Reply runs of either agent made one after another on one store.
MaxAltRuns == 2
\* Ingestion calls made on an analysed store.
MaxReingest == 1
MaxRepliesArg == 2

\* ------------------------------------------------------------- identifiers
NoId == <<>>
ContentIds == {<<6>>, <<7>>}
PostIds == {<<8>>}
\* The content:<id> record written by the posting UI: content 7 was posted
\* as post 8 to page "PG1".  Content 6 is a content item not marked posted.
PostedContent == {<<7>>}
\* (content_id, post_id) pairs a fetch/refresh request may name: the URL's
\* content id and the body's post id are independent inputs.
Targets == {<<(<<7>>), (<<8>>)>>, <<(<<6>>), (<<8>>)>>}
\* The comments that can exist remotely on post 8.
RemoteComments ==
    {[id |-> <<1>>, message |-> "nice"], [id |-> <<2>>, message |-> "why"]}
CommentIds == {c.id : c \in RemoteComments}
RemoteOn(post) == IF post = <<8>> THEN RemoteComments ELSE {}

\* Num reads a digit sequence as a number (used only to order keys).
RECURSIVE Num(_)
Num(s) == IF s = <<>> THEN 0 ELSE 10 * Num(SubSeq(s, 1, Len(s) - 1)) + s[Len(s)]

\* a in b, for Python strings modelled as digit sequences.
IsSubstr(a, b) ==
    \E i \in 0..Len(b) : i + Len(a) <= Len(b) /\ SubSeq(b, i + 1, i + Len(a)) = a

\* ------------------------------------------------------------------- store
SnapKey(content, post) ==
    [kind |-> "comments", content |-> content, post |-> post, cid |-> NoId, ts |-> 0]
\* f"sentiment:{comment_key}:{comment_id}" with comment_key = the snapshot key
SentKey(ckey, cid) ==
    [kind |-> "sentiment", content |-> ckey.content, post |-> ckey.post, cid |-> cid, ts |-> 0]
\* f"reply:{comment_key}:{comment_id}"
ReplyKey(ckey, cid) ==
    [kind |-> "reply", content |-> ckey.content, post |-> ckey.post, cid |-> cid, ts |-> 0]
\* f"reply:{comment_id}:{int(datetime.now().timestamp())}"
ReplyKeyStandalone(cid, ts) ==
    [kind |-> "reply", content |-> NoId, post |-> NoId, cid |-> cid, ts |-> ts]

\* key_str.startswith(prefix + ":"), for the prefixes the code tests.
\* "comment:" is no prefix of "comments:<..>", so no stored key starts with it.
StartsWith(k, prefix) ==
    CASE prefix = "comments:" -> k.kind = "comments"
      [] prefix = "sentiment:" -> k.kind = "sentiment"
      [] prefix = "reply:" -> k.kind = "reply"
      [] prefix = "content:" -> k.kind = "content"
      [] OTHER -> FALSE

\* comment_id in key_str: the id occurs in one of the id parts of the key.
\* (The timestamp part and the literal prefixes hold no comment id.)
KeyContains(k, id) ==
    IsSubstr(id, k.content) \/ IsSubstr(id, k.post) \/ IsSubstr(id, k.cid)

\* f"content:{content_id}"
ContentKey(content) ==
    [kind |-> "content", content |-> content, post |-> NoId, cid |-> NoId, ts |-> 0]

KindRank(kind) ==
    CASE kind = "comments" -> 1 [] kind = "content" -> 2 [] kind = "reply" -> 3 [] OTHER -> 4
KeyRank(k) ==
    (((KindRank(k.kind) * 100 + Num(k.content)) * 100 + Num(k.post)) * 100 + Num(k.cid)) * 100 + k.ts

\* `for raw_key in db`: the keys in the store's iteration order.  The order is
\* unspecified by UnQLite but the same for the same set of keys.
RECURSIVE ScanKeys(_)
ScanKeys(S) ==
    IF S = {} THEN <<>>
    ELSE LET k == CHOOSE x \in S : \A y \in S : KeyRank(x) <= KeyRank(y)
         IN <<k>> \o ScanKeys(S \ {k})

Put(d, k, v) == [x \in DOMAIN d \cup {k} |-> IF x = k THEN v ELSE d[x]]
Del(d, K) == [x \in DOMAIN d \ K |-> d[x]]
EmptyDb == [x \in {} |-> 0]

\* A list of remote comments in the order the Graph API returns them (by id).
RECURSIVE ListOf(_)
ListOf(S) ==
    IF S = {} THEN <<>>
    ELSE LET c == CHOOSE x \in S : \A y \in S : Num(x.id) <= Num(y.id)
         IN <<c>> \o ListOf(S \ {c})

Range(s) == {s[i] : i \in 1..Len(s)}

VARIABLES
    db,      \* the UnQLite store: key -> decoded JSON value
    run,     \* per runner: the reply_to_comments invocation in progress
    an,      \* the analyze_all_comments invocation in progress
    posted,  \* remote platform: number of replies posted under each comment
    last,    \* the last completed top-level operation and what it returned
    ops      \* number of top-level operations started, by class

vars == <<db, run, an, posted, last, ops>>

\* ------------------------------------------------- remote platform client
\* Graph API error envelopes {error: {message, code, error_subcode}}.
\* error_subcode 0 stands for an envelope without the field.
MsgGone == "Unsupported post request. Object with ID does not exist, cannot be loaded due to missing permissions, or does not support this operation"
MsgCommentGone == "This comment does not exist"
MsgToken == "Error validating access token"
MsgParam == "Invalid parameter"
MsgUnknown == "Unknown Facebook API error"
MsgNoApps == "No Facebook apps configured"
MsgNoToken == "No access token available"
MsgConn == "Connection aborted"
MsgPermissions == "Requires missing permissions"
MsgNotLoaded == "The object cannot be loaded"
EnvGone == [message |-> MsgGone, code |-> 100, error_subcode |-> 33]
EnvGoneTerse == [message |-> MsgParam, code |-> 100, error_subcode |-> 33]
EnvCommentGone == [message |-> MsgCommentGone, code |-> 100, error_subcode |-> 0]
EnvToken == [message |-> MsgToken, code |-> 190, error_subcode |-> 0]
Envelopes == {EnvGone, EnvGoneTerse, EnvCommentGone, EnvToken}

\* phrase in message.lower(), for the phrases the code looks for.
Phrases(msg) ==
    CASE msg = MsgGone -> {"does not exist", "cannot be loaded", "missing permissions",
                           "does not support this operation"}
      [] msg = MsgCommentGone -> {"does not exist", "comment does not exist"}
      [] msg = MsgPermissions -> {"missing permissions"}
      [] msg = MsgNotLoaded -> {"cannot be loaded"}
      [] OTHER -> {}
HasPhrase(msg, phrase) == phrase \in Phrases(msg)

\* What one HTTP call to the Graph API can come back with:
\*   ok        - 200 and a JSON body (data for a GET, id for a POST)
\*   http_json - 4xx/5xx with a JSON error envelope
\*   http_raw  - 4xx/5xx with a body that is not JSON
\*   exception - requests raised (no response)
NoEnv == [message |-> "", code |-> 0, error_subcode |-> 0]
ErrorResponses ==
    {[kind |-> "http_json", env |-> e, text |-> ""] : e \in Envelopes}
    \cup {[kind |-> "http_raw", env |-> NoEnv, text |-> t] : t \in {MsgGone, MsgConn}}
    \cup {[kind |-> "exception", env |-> NoEnv, text |-> MsgConn]}

\* _handle_facebook_response without its except branch: every response is
\* taken as a parsed body with no error.
HandleFacebookResponseLax(r) == [has_error |-> FALSE, has_message |-> FALSE, message |-> ""]

\* _handle_facebook_response: the parsed body on success; on an HTTP error the
\* whole parsed body wrapped as {'error': body}, so the Graph envelope ends up
\* at result['error']['error']; a non-JSON body as {'error': {'message': text}}.
\* has_error: 'error' in result; has_message/message: result['error'].get('message').
HandleFacebookResponse(r) ==
    CASE r.kind = "ok" -> [has_error |-> FALSE, has_message |-> FALSE, message |-> ""]
      [] r.kind = "http_json" -> [has_error |-> TRUE, has_message |-> FALSE, message |-> ""]
      [] r.kind = "http_raw" -> [has_error |-> TRUE, has_message |-> TRUE, message |-> r.text]

\* get_facebook_apps(): creds.json, page_id -> access token ('password').
\* PG2 is configured without a token.
Apps == <<[page_id |-> "PG1", password |-> "T1"], [page_id |-> "PG2", password |-> ""]>>
\* The credential lookup without its comparison of page ids: the first app
\* of creds.json serves every page.
AppForAny(page) == {Apps[1]}

\* The app whose page_id is the page: the first match of the loop.
AppFor(page) ==
    IF \E i \in 1..Len(Apps) : Apps[i].page_id = page
    THEN {Apps[CHOOSE i \in 1..Len(Apps) : Apps[i].page_id = page /\ \A j \in 1..(i - 1) : Apps[j].page_id # page]}
    ELSE {}

\* ------------------------------------------------------------- ingestion
\* The responses of GET /{post}/comments: any sublist of the post's comments.
FetchResponses(post) ==
    {[kind |-> "ok", data |-> ListOf(S), text |-> ""] : S \in SUBSET RemoteOn(post)}
    \cup {[kind |-> k, data |-> <<>>, text |-> MsgConn] : k \in {"http_json", "http_raw", "exception"}}

\* The request bodies of the fetch and refresh endpoints: a well-formed one
\* for each target, and one of each malformed shape.
FetchRequests ==
    {[hasData |-> TRUE, page |-> "PG1", content |-> t[1], post |-> t[2]] : t \in Targets}
    \cup {[hasData |-> TRUE, page |-> pg, content |-> <<7>>, post |-> <<8>>] : pg \in {"PG2", "PGX", ""}}
    \cup {[hasData |-> TRUE, page |-> "PG1", content |-> <<7>>, post |-> NoId]}
    \cup {[hasData |-> FALSE, page |-> "", content |-> <<7>>, post |-> NoId]}

\* store_comments_in_db that also drops the post's Sentiment Records of the
\* comments its new list no longer holds.
StoreCommentsPruning(d, post, content, data) ==
    LET d1 == Put(d, SnapKey(content, post),
                  [post_id |-> post, content_id |-> content, comments |-> data,
                   total_comments |-> Len(data)])
        ids == {data[i].id : i \in 1..Len(data)}
        keep == {k \in DOMAIN d1 : ~(k.kind = "sentiment" /\ k.content = content
                                      /\ k.post = post /\ k.cid \notin ids)}
    IN  [k \in keep |-> d1[k]]

\* store_comments_in_db(post_id, content_id, comments_data)
StoreComments(d, post, content, data) ==
    Put(d, SnapKey(content, post),
        [post_id |-> post, content_id |-> content, comments |-> data,
         total_comments |-> Len(data)])

\* get_posts_from_db() without its test of posted_to_facebook and
\* facebook_post_id: every content record is a post.
PostsFromDbAll(d) ==
    LET ks == ScanKeys({k \in DOMAIN d : StartsWith(k, "content:")})
    IN [i \in 1..Len(ks) |->
          [id |-> ks[i].content, facebook_post_id |-> d[ks[i]].facebook_post_id,
           posted_to_page |-> d[ks[i]].posted_to_page]]

\* get_posts_from_db(): the posted content records, in scan order.
PostsFromDb(d) ==
    LET ks == ScanKeys({k \in DOMAIN d : StartsWith(k, "content:")
                          /\ d[k].posted_to_facebook /\ d[k].facebook_post_id # NoId})
    IN [i \in 1..Len(ks) |->
          [id |-> ks[i].content, facebook_post_id |-> d[ks[i]].facebook_post_id,
           posted_to_page |-> d[ks[i]].posted_to_page]]

\* The last completed operation.  ingested: the (content, post, fetched list)
\* of each post it reported as fetched; prior: the (content, post) pairs
\* that earlier operations reported as fetched; repeat: the operation
\* before it was the same call; errored: the (content, post) pairs whose
\* remote fetch was made and came back with an error; report: the body of
\* the bulk endpoint's response; req: the request body of the fetch or
\* refresh endpoint; called: that endpoint made its remote fetch.
NoReport ==
    [total_posts_processed |-> 0, successful_fetches |-> 0, total_comments_fetched |-> 0,
     results |-> <<>>]
LastNone ==
    [op |-> "none", entry |-> "", variant |-> "", cid |-> NoId, ok |-> TRUE, status |-> 0,
     n |-> 0, repeat |-> FALSE, ingested |-> {}, prior |-> {}, errored |-> {},
     report |-> NoReport, checked |-> {}, missing |-> {},
     req |-> [hasData |-> FALSE, page |-> "", post |-> NoId], called |-> FALSE]

IngestResult(entry, ok, status, n, ingested) ==
    [LastNone EXCEPT !.op = "ingest", !.entry = entry, !.ok = ok, !.status = status,
                     !.n = n, !.ingested = ingested]

\* The common body of fetch_comments_from_facebook (lines 230-282) and
\* refresh_post_comments (lines 321-372): validate, resolve the credential,
\* fetch, store a non-empty list.  Returns the store and the response.
FetchAndStore(d, entry, hasData, page, content, post, resp, storeOk) ==
    LET req == [hasData |-> hasData, page |-> page, post |-> post]
        fail(status) ==
            [db |-> d, ret |-> [IngestResult(entry, FALSE, status, 0, {}) EXCEPT !.req = req]]
        \* the remote fetch was made for this pair
        called(x) == [x EXCEPT !.ret.called = TRUE, !.ret.errored =
                        IF resp.kind = "ok" THEN {} ELSE {[content |-> content, post |-> post]}]
        result == HandleFacebookResponse(resp)
    IN  IF ~hasData THEN fail(400)
        ELSE IF page = "" \/ content = NoId \/ post = NoId THEN fail(400)
        ELSE IF AppFor(page) = {} THEN fail(404)
        ELSE IF (CHOOSE a \in AppFor(page) : TRUE).password = "" THEN fail(400)
        ELSE called(
          IF resp.kind = "exception" THEN fail(500)
          ELSE IF result.has_error THEN fail(400)
          ELSE IF resp.data # <<>> /\ ~storeOk THEN fail(500)
          ELSE [db |-> IF resp.data # <<>> THEN StoreComments(d, post, content, resp.data) ELSE d,
                ret |-> [IngestResult(entry, TRUE, 200, Len(resp.data),
                                      {[content |-> content, post |-> post, fetched |-> resp.data]})
                           EXCEPT !.req = req]])

\* fetch_and_store_comments_for_post(facebook_post_id) of routes/display.py:
\* first app's token, fetch, look the content id up, store whatever came back.
FetchAndStoreForPost(d, post, resp, storeOk) ==
    LET fail == [db |-> d, ret |-> IngestResult("display", FALSE, 0, 0, {})]
        \* the remote fetch was made for this post
        called(x) == [x EXCEPT !.ret.errored =
                        IF resp.kind = "ok" THEN {} ELSE {[content |-> NoId, post |-> post]}]
        result == HandleFacebookResponse(resp)
        posts == PostsFromDb(d)
        hits == {i \in 1..Len(posts) : posts[i].facebook_post_id = post}
    IN  IF Len(Apps) = 0 THEN fail
        ELSE IF Apps[1].page_id = "" \/ Apps[1].password = "" THEN fail
        ELSE called(
          IF resp.kind = "exception" THEN fail
          ELSE IF result.has_error THEN fail
          ELSE IF hits = {} THEN fail
          ELSE IF ~storeOk THEN fail
          ELSE LET content == posts[CHOOSE i \in hits : \A j \in hits : i <= j].id
               IN [db |-> StoreComments(d, post, content, resp.data),
                   ret |-> IngestResult("display", TRUE, 0, Len(resp.data),
                                        {[content |-> content, post |-> post, fetched |-> resp.data]})])

\* bulk_fetch_comments: one pass over the posted content.  out[i] is what the
\* remote call and the store write for the i-th post come back with.
RECURSIVE BulkLoop(_, _, _, _, _)
BulkLoop(d, posts, i, out, acc) ==
    IF i > Len(posts) THEN [acc EXCEPT !.db = d]
    ELSE
      LET post == posts[i]
          resp == out[i].resp
          result == HandleFacebookResponse(resp)
          failed == [content_id |-> post.id, post_id |-> post.facebook_post_id,
                     success |-> FALSE, comments_count |-> 0]
          done == [failed EXCEPT !.success = TRUE, !.comments_count = Len(resp.data)]
          got == [content |-> post.id, post |-> post.facebook_post_id, fetched |-> resp.data]
          target == [content |-> post.id, post |-> post.facebook_post_id]
          \* the remote fetch is made for this post
          called(a) == [a EXCEPT !.errored = IF resp.kind = "ok" THEN @ ELSE @ \cup {target}]
          with(res) == [acc EXCEPT !.results = Append(@, res)]
      IN  IF post.posted_to_page = "" \/ post.facebook_post_id = NoId
          THEN BulkLoop(d, posts, i + 1, out, acc)
          ELSE IF AppFor(post.posted_to_page) = {}
                  \/ (CHOOSE a \in AppFor(post.posted_to_page) : TRUE).password = ""
          THEN BulkLoop(d, posts, i + 1, out, with(failed))
          ELSE IF resp.kind = "exception" \/ result.has_error
          THEN BulkLoop(d, posts, i + 1, out, called(with(failed)))
          ELSE IF resp.data = <<>>
          THEN BulkLoop(d, posts, i + 1, out,
                        called([with(done) EXCEPT !.ingested = @ \cup {got}]))
          ELSE IF out[i].storeOk
          THEN BulkLoop(StoreComments(d, post.facebook_post_id, post.id, resp.data),
                        posts, i + 1, out,
                        called([with(done) EXCEPT !.ingested = @ \cup {got},
                                                  !.fetched = @ + Len(resp.data)]))
          ELSE BulkLoop(d, posts, i + 1, out, called(with(failed)))

BulkFetch(d, out) ==
    LET posts == PostsFromDb(d)
        r == BulkLoop(d, posts, 1, out,
                      [db |-> d, results |-> <<>>, ingested |-> {}, errored |-> {}, fetched |-> 0])
        good == {i \in 1..Len(r.results) : r.results[i].success}
    IN  IF Len(posts) = 0
        THEN [db |-> d, ret |-> IngestResult("bulk", FALSE, 404, 0, {})]
        ELSE [db |-> r.db,
              ret |-> [IngestResult("bulk", TRUE, 200, Cardinality(good), r.ingested)
                         EXCEPT !.errored = r.errored,
                                !.report = [total_posts_processed |-> Len(posts),
                                            successful_fetches |-> Cardinality(good),
                                            total_comments_fetched |-> r.fetched,
                                            results |-> r.results]]]

\* ------------------------------------------------------ sentiment analysis
Labels == {"positive", "negative", "neutral"}
\* What the chat completion for one comment comes back with: a valid label,
\* any other text, or an exception of the client.
SentimentAnswers == {"positive", "negative", "unexpected", "exception"}

\* text.strip() == "" for the comment texts of the model.
IsBlank(text) == text \in {"", " "}

\* analyze_sentiment without the validation of lines 87-102: whatever the
\* service answers is the label.
AnalyzeSentimentTrusting(text, answer) ==
    IF IsBlank(text)
    THEN [sentiment |-> "neutral", confidence |-> 0, has_error |-> TRUE, note |-> FALSE, called |-> FALSE]
    ELSE IF answer = "exception"
    THEN [sentiment |-> "neutral", confidence |-> 0, has_error |-> TRUE, note |-> FALSE, called |-> TRUE]
    ELSE [sentiment |-> answer, confidence |-> 10, has_error |-> FALSE, note |-> FALSE, called |-> TRUE]

\* analyze_sentiment(comment_text).  confidence is in tenths.
\* called: whether the chat completion was requested.
AnalyzeSentiment(text, answer) ==
    IF IsBlank(text)
    THEN [sentiment |-> "neutral", confidence |-> 0, has_error |-> TRUE, note |-> FALSE, called |-> FALSE]
    ELSE IF answer = "exception"
    THEN [sentiment |-> "neutral", confidence |-> 0, has_error |-> TRUE, note |-> FALSE, called |-> TRUE]
    ELSE IF answer \in Labels
    THEN [sentiment |-> answer, confidence |-> 10, has_error |-> FALSE, note |-> FALSE, called |-> TRUE]
    ELSE [sentiment |-> "neutral", confidence |-> 5, has_error |-> FALSE, note |-> TRUE, called |-> TRUE]

\* get_all_comments_from_db(): every comment of every snapshot, flattened.
RECURSIVE Flatten(_, _, _)
Flatten(d, ks, i) ==
    IF i > Len(ks) THEN <<>>
    ELSE [j \in 1..Len(d[ks[i]].comments) |->
            [key |-> ks[i], comment_id |-> d[ks[i]].comments[j].id,
             message |-> d[ks[i]].comments[j].message]]
         \o Flatten(d, ks, i + 1)
GetAllCommentsFromDb(d) ==
    Flatten(d, ScanKeys({k \in DOMAIN d : StartsWith(k, "comments:")}), 1)

\* get_sentiment_from_db(comment_key, comment_id): the record, or None ({}).
GetSentimentFromDb(d, ckey, cid) ==
    IF SentKey(ckey, cid) \in DOMAIN d THEN {d[SentKey(ckey, cid)]} ELSE {}

\* store_sentiment_in_db(comment_key, comment_id, sentiment_data)
StoreSentiment(d, ckey, cid, data) == Put(d, SentKey(ckey, cid), data)

\* The test of line 278 without its first conjunct: nothing is ever skipped.
SkipAnalysisNever(existing, force) == FALSE

\* The test of line 278 without its second conjunct: force is ignored.
SkipAnalysisExisting(existing, force) == existing # {}

\* `if existing_sentiment and not force_reanalyze` (review.py line 278)
SkipAnalysis(existing, force) == existing # {} /\ ~force

NoStats ==
    [total |-> 0, analyzed |-> 0, skipped |-> 0, errors |-> 0,
     positive |-> 0, negative |-> 0, neutral |-> 0]
Tally(stats, label) ==
    CASE label = "positive" -> [stats EXCEPT !.positive = @ + 1]
      [] label = "negative" -> [stats EXCEPT !.negative = @ + 1]
      [] OTHER -> [stats EXCEPT !.neutral = @ + 1]

\* sentiment_storage (review.py lines 295-302)
SentimentData(c, res) ==
    [comment_id |-> c.comment_id, comment_key |-> c.key, message |-> c.message,
     sentiment |-> res.sentiment, confidence |-> res.confidence, note |-> res.note]

\* What the last loop iteration of an analysis run did.
\* had: the comment had a Sentiment Record when it was looked up.
\* offlabel: the service was called and answered with text that is no label.
NoAnEvent == [key |-> SnapKey(NoId, NoId), cid |-> NoId, had |-> FALSE, called |-> FALSE,
              wrote |-> FALSE, offlabel |-> FALSE]

\* repeat: the previous operation was an unforced analysis run.
AnIdle ==
    [pc |-> "idle", force |-> FALSE, queue |-> <<>>, i |-> 0, stats |-> NoStats,
     repeat |-> FALSE, ev |-> NoAnEvent]

\* One iteration of the loop of analyze_all_comments (lines 269-311) on
\* comment A.queue[A.i].
AnalyzeIteration(d, A, answer, storeOk) ==
    LET c == A.queue[A.i]
        existing == GetSentimentFromDb(d, c.key, c.comment_id)
        res == AnalyzeSentiment(c.message, answer)
        ev0 == [NoAnEvent EXCEPT !.key = c.key, !.cid = c.comment_id, !.had = existing # {}]
        A1 == [A EXCEPT !.i = @ + 1]
        ev1 == [ev0 EXCEPT !.called = res.called,
                           !.offlabel = res.called /\ answer \notin Labels \cup {"exception"}]
    IN  IF SkipAnalysis(existing, A.force)
        THEN [db |-> d,
              an |-> [A1 EXCEPT !.ev = ev0,
                                !.stats = Tally([@ EXCEPT !.skipped = @ + 1],
                                                (CHOOSE e \in existing : TRUE).sentiment)]]
        ELSE IF res.has_error
        THEN [db |-> d, an |-> [A1 EXCEPT !.ev = ev1, !.stats.errors = @ + 1]]
        ELSE IF storeOk
        THEN [db |-> StoreSentiment(d, c.key, c.comment_id, SentimentData(c, res)),
              an |-> [A1 EXCEPT !.ev = [ev1 EXCEPT !.wrote = TRUE],
                                !.stats = Tally([@ EXCEPT !.analyzed = @ + 1], res.sentiment)]]
        ELSE [db |-> d, an |-> [A1 EXCEPT !.ev = ev1, !.stats.errors = @ + 1]]

\* ------------------------------------------------------------ reply agents
\* What the drafting chat completion comes back with: a JSON object with or
\* without its "type" and "reply" members, text that is no JSON, or an
\* exception of the client.
DraftTypes == {"question", "general", "negative"}
Drafts ==
    [kind : {"json"}, type : DraftTypes \cup {"missing"}, reply : {"text", "missing"}]
    \cup {[kind |-> k, type |-> "missing", reply |-> "missing"] : k \in {"unparseable", "exception"}}
ThanksEmoji == "Thank you for your comment! :)"
Thanks == "Thank you for your comment!"

\* classify_comment_type of agents/reply.py
ClassifyCommentType(text, draft) ==
    LET fallback == [type |-> "general", reply |-> ThanksEmoji, has_error |-> TRUE, called |-> TRUE]
    IN  IF IsBlank(text)
        THEN [type |-> "general", reply |-> "", has_error |-> TRUE, called |-> FALSE]
        ELSE IF draft.kind = "json" /\ draft.type # "missing" /\ draft.reply # "missing"
        THEN [type |-> draft.type, reply |-> draft.reply, has_error |-> FALSE, called |-> TRUE]
        ELSE fallback

\* classify_comment_type of agents/reply_standalone.py, followed by the
\* caller's result.get('type', 'unknown') and result.get('reply', '')
ClassifyCommentTypeStandalone(text, draft) ==
    IF draft.kind = "json"
    THEN [type |-> IF draft.type = "missing" THEN "unknown" ELSE draft.type,
          reply |-> IF draft.reply = "missing" THEN "" ELSE draft.reply, called |-> TRUE]
    ELSE [type |-> "unknown", reply |-> Thanks, called |-> TRUE]

\* The responses of POST /{comment}/comments.
PostResponses == {[kind |-> "ok", env |-> NoEnv, text |-> ""]} \cup ErrorResponses

\* post_reply_to_facebook that takes every response for a success.
PostReplyToFacebookOptimistic(resp) == [success |-> TRUE, error |-> ""]

\* post_reply_to_facebook of agents/reply.py: only the message string of an
\* error survives, read from result['error'].get('message', <default>).
PostReplyToFacebook(resp) ==
    IF Len(Apps) = 0 THEN [success |-> FALSE, error |-> MsgNoApps]
    ELSE IF Apps[1].password = "" THEN [success |-> FALSE, error |-> MsgNoToken]
    ELSE IF resp.kind = "exception" THEN [success |-> FALSE, error |-> resp.text]
    ELSE LET result == HandleFacebookResponse(resp)
         IN  IF result.has_error
             THEN [success |-> FALSE,
                   error |-> IF result.has_message THEN result.message ELSE MsgUnknown]
             ELSE [success |-> TRUE, error |-> ""]

\* is_comment_not_found_error of agents/reply.py, on error_result['error'].
IsCommentNotFoundError(err) ==
    \/ \E ph \in {"does not exist", "cannot be loaded", "missing permissions",
                  "does not support this operation"} : HasPhrase(err.message, ph)
    \/ err.code \in {100, 803}
    \/ err.error_subcode \in {33}

\* is_comment_not_found_error of agents/reply_standalone.py
IsCommentNotFoundErrorStandalone(err) ==
    \/ (err.code = 100 /\ err.error_subcode = 33)
    \/ HasPhrase(err.message, "comment does not exist")
    \/ HasPhrase(err.message, "object does not exist")

\* The call in reply_to_comments / cleanup_orphaned_comments of reply.py:
\* is_comment_not_found_error({'error': {'message': facebook_result['error']}})
NotFoundFromMessage(msg) ==
    IsCommentNotFoundError([message |-> msg, code |-> 0, error_subcode |-> 0])

\* delete_comment_from_db of agents/reply.py: every key whose text contains
\* the comment id is deleted; the result is whether anything was deleted.
DeleteCommentFromDb(d, cid) ==
    LET gone == {k \in DOMAIN d : KeyContains(k, cid)}
    IN  [db |-> Del(d, gone), deleted |-> Cardinality(gone), ret |-> gone # {}]

\* comment_id in str(data), for a decoded sentiment or reply value.
ValueContains(v, cid) ==
    IsSubstr(cid, v.comment_id) \/ IsSubstr(cid, v.comment_key.content)
    \/ IsSubstr(cid, v.comment_key.post)

\* delete_comment_from_db of agents/reply_standalone.py: keys under comment:,
\* sentiment: and reply: whose value names the comment id; True unless the
\* scan raised.
DeleteCommentFromDbStandalone(d, cid) ==
    LET gone == {k \in DOMAIN d :
                   /\ (StartsWith(k, "comment:") \/ StartsWith(k, "sentiment:")
                       \/ StartsWith(k, "reply:"))
                   /\ (d[k].comment_id = cid \/ ValueContains(d[k], cid))}
    IN  [db |-> Del(d, gone), deleted |-> Cardinality(gone), ret |-> TRUE]

\* post_reply_to_facebook of agents/reply_standalone.py: True on 200 with an
\* id; on an error body that parses, the not-found test and the cleanup.
\* cleanup: whether delete_comment_from_db was called.
PostReplyToFacebookStandalone(resp) ==
    IF Len(Apps) = 0 THEN [success |-> FALSE, cleanup |-> FALSE]
    ELSE IF Apps[1].password = "" THEN [success |-> FALSE, cleanup |-> FALSE]
    ELSE IF resp.kind = "ok" THEN [success |-> TRUE, cleanup |-> FALSE]
    ELSE IF resp.kind = "http_json"
    THEN [success |-> FALSE, cleanup |-> IsCommentNotFoundErrorStandalone(resp.env)]
    ELSE [success |-> FALSE, cleanup |-> FALSE]

\* The first pass of get_comments_to_reply / the scan of the standalone
\* reply_to_comments: the comment ids of all reply records.
RepliedComments(d) ==
    {d[k].comment_id : k \in {x \in DOMAIN d : StartsWith(x, "reply:")}}

\* `sentiment in ['positive', 'neutral'] and comment_id not in replied_comments`
IsCandidate(rec, replied) ==
    rec.sentiment \in {"positive", "neutral"} /\ rec.comment_id \notin replied

\* get_comments_to_reply() as it would be if an invocation claimed its
\* candidates: the comments another running invocation still holds are left
\* out.
GetCommentsToReplyClaimed(d) ==
    LET replied == RepliedComments(d)
        busy == {o \in DOMAIN run : run[o].pc = "loop"}
        held == UNION {{run[o].cands[j].comment_id : j \in 1..Len(run[o].cands)} : o \in busy}
        ks == ScanKeys({k \in DOMAIN d : StartsWith(k, "sentiment:")
                           /\ IsCandidate(d[k], replied)
                           /\ d[k].comment_id \notin held})
    IN  [i \in 1..Len(ks) |->
           [comment_id |-> d[ks[i]].comment_id, comment_key |-> d[ks[i]].comment_key,
            message |-> d[ks[i]].message, sentiment |-> d[ks[i]].sentiment]]

\* get_comments_to_reply(): one candidate per sentiment record, in scan order.
GetCommentsToReply(d) ==
    LET replied == RepliedComments(d)
        ks == ScanKeys({k \in DOMAIN d : StartsWith(k, "sentiment:")
                           /\ IsCandidate(d[k], replied)})
    IN  [i \in 1..Len(ks) |->
           [comment_id |-> d[ks[i]].comment_id, comment_key |-> d[ks[i]].comment_key,
            message |-> d[ks[i]].message, sentiment |-> d[ks[i]].sentiment]]

\* comments[:max_replies]
Take(s, n) == SubSeq(s, 1, IF n < Len(s) THEN n ELSE Len(s))

\* The standalone scan: sentiment_data[comment_id] = {...}, a dict keyed by
\* comment id.  A later record of the same id replaces the value and keeps
\* the position of the first.
RECURSIVE SentimentDict(_, _, _, _)
SentimentDict(d, ks, i, acc) ==
    IF i > Len(ks) THEN acc
    ELSE LET rec == d[ks[i]]
             entry == [comment_id |-> rec.comment_id, comment_key |-> SnapKey(NoId, NoId),
                       message |-> rec.message, sentiment |-> rec.sentiment]
             at == {j \in 1..Len(acc) : acc[j].comment_id = rec.comment_id}
         IN  IF at = {} THEN SentimentDict(d, ks, i + 1, Append(acc, entry))
             ELSE SentimentDict(d, ks, i + 1,
                                [acc EXCEPT ![CHOOSE j \in at : TRUE] = entry])
ScanSentiments(d) ==
    SentimentDict(d, ScanKeys({k \in DOMAIN d : StartsWith(k, "sentiment:")}), 1, <<>>)

\* store_reply_in_db that also persists the drafting service's type as the
\* comment's sentiment label.
StoreReplyRelabel(d, c, info) ==
    LET K == SentKey(c.comment_key, c.comment_id)
        d1 == Put(d, ReplyKey(c.comment_key, c.comment_id),
                  [comment_id |-> c.comment_id, comment_key |-> c.comment_key,
                   sentiment |-> c.sentiment, reply_type |-> info.type,
                   reply_text |-> info.reply])
    IN  IF K \in DOMAIN d1 THEN Put(d1, K, [d1[K] EXCEPT !.sentiment = info.type]) ELSE d1

\* store_reply_in_db(comment_id, comment_key, reply_storage)
StoreReply(d, c, info) ==
    Put(d, ReplyKey(c.comment_key, c.comment_id),
        [comment_id |-> c.comment_id, comment_key |-> c.comment_key,
         sentiment |-> c.sentiment, reply_type |-> info.type, reply_text |-> info.reply])

\* db[f"reply:{comment_id}:{timestamp}"] = json.dumps(reply_record).  The
\* record of the standalone agent carries no comment_key.
StoreReplyStandalone(d, c, info, ts) ==
    Put(d, ReplyKeyStandalone(c.comment_id, ts),
        [comment_id |-> c.comment_id, comment_key |-> SnapKey(NoId, NoId),
         sentiment |-> c.sentiment, reply_type |-> info.type, reply_text |-> info.reply])

\* stats["reply_types"] = {"question": 0, "compliment": 0, "general": 0}
ReplyTypeKeys == {"question", "compliment", "general"}
NoReplyStats ==
    [total |-> 0, processed |-> 0, replied |-> 0, skipped |-> 0, cleaned_up |-> 0,
     errors |-> 0, question |-> 0, compliment |-> 0, general |-> 0]
CountType(stats, type) ==
    CASE type = "question" -> [stats EXCEPT !.question = @ + 1]
      [] type = "compliment" -> [stats EXCEPT !.compliment = @ + 1]
      [] OTHER -> [stats EXCEPT !.general = @ + 1]

\* What the last loop iteration of a run did.
\* gone: the post came back as an error envelope naming a missing object.
\* unparseable: the drafting service was called and its text was no JSON;
\* reply: the reply text handed to the Graph API.
\* held_at_call: the store handles the invocation had open when it called the
\* drafting service or the Graph API; handles_max: the most store handles it
\* had open at once.
NoEvent ==
    [cid |-> NoId, draft_type |-> "", post_called |-> FALSE, post_ok |-> FALSE,
     gone |-> FALSE, delete_called |-> FALSE, wrote |-> FALSE, bucket |-> "",
     held_at_call |-> 0, handles_max |-> 0, unparseable |-> FALSE, reply |-> ""]

RunIdle ==
    [pc |-> "idle", variant |-> "", maxr |-> 0, total |-> 0, cands |-> <<>>, i |-> 0,
     stats |-> NoReplyStats, replied |-> {}, nposted |-> 0, ts |-> 0,
     negative |-> {}, posts |-> {}, writes |-> {}, drafts |-> 0, attempts |-> 0,
     handles |-> 0, ev |-> NoEvent]

\* The remote error envelopes that denote a missing object (section 6 of the
\* design): (code 100, subcode 33), or a message containing "does not exist"
\* or "cannot be loaded".
MissingObject(resp) ==
    /\ resp.kind = "http_json"
    /\ \/ (resp.env.code = 100 /\ resp.env.error_subcode = 33)
       \/ HasPhrase(resp.env.message, "does not exist")
       \/ HasPhrase(resp.env.message, "cannot be loaded")

\* One iteration of the loop of reply_to_comments of agents/reply.py
\* (lines 451-516) on candidate R.cands[R.i].  Returns the run, the store
\* and the remote reply counts after it.  pc = "aborted": an exception left
\* the loop and the function.
ReplyIteration(d, p, R, draft, resp, storeOk) ==
    LET c == R.cands[R.i]
        info == ClassifyCommentType(c.message, draft)
        fb == PostReplyToFacebook(resp)
        del == DeleteCommentFromDb(d, c.comment_id)
        \* the reply exists remotely when the Graph API accepted the request
        sent == IF resp.kind = "ok" THEN [p EXCEPT ![c.comment_id] = @ + 1] ELSE p
        ev0 == [NoEvent EXCEPT !.cid = c.comment_id, !.held_at_call = R.handles,
                               !.handles_max = R.handles,
                               !.unparseable = info.called /\ draft.kind = "unparseable"]
        R1 == [R EXCEPT !.i = @ + 1, !.drafts = @ + (IF info.called THEN 1 ELSE 0)]
        ev1 == [ev0 EXCEPT !.draft_type = info.type, !.post_called = TRUE,
                           !.reply = info.reply, !.gone = MissingObject(resp)]
        \* store_reply_in_db / delete_comment_from_db open a handle of their own
        ev2 == [ev1 EXCEPT !.handles_max = R.handles + 1]
        R2 == [R1 EXCEPT !.attempts = @ + 1]
    IN  IF info.has_error
        THEN [db |-> d, posted |-> p,
              run |-> [R1 EXCEPT !.stats.errors = @ + 1, !.ev = [ev0 EXCEPT !.bucket = "errors"]]]
        ELSE IF fb.success
        THEN LET R3 == [R2 EXCEPT !.stats.replied = @ + 1,
                                  !.posts = @ \cup {c.comment_id},
                                  !.writes = IF storeOk THEN @ \cup {c.comment_id} ELSE @,
                                  !.ev = [ev2 EXCEPT !.post_ok = TRUE, !.wrote = storeOk,
                                                     !.bucket = "replied"]]
             IN  [db |-> IF storeOk THEN StoreReply(d, c, info) ELSE d,
                  posted |-> sent,
                  run |-> IF info.type \in ReplyTypeKeys
                          THEN [R3 EXCEPT !.stats = CountType(@, info.type)]
                          ELSE [R3 EXCEPT !.pc = "aborted"]]
        ELSE IF NotFoundFromMessage(fb.error)
        THEN [db |-> del.db, posted |-> p,
              run |-> IF del.ret
                      THEN [R2 EXCEPT !.stats.cleaned_up = @ + 1,
                                      !.ev = [ev2 EXCEPT !.delete_called = TRUE,
                                                         !.bucket = "cleaned_up"]]
                      ELSE [R2 EXCEPT !.stats.errors = @ + 1,
                                      !.ev = [ev2 EXCEPT !.delete_called = TRUE,
                                                         !.bucket = "errors"]]]
        ELSE [db |-> d, posted |-> p,
              run |-> [R2 EXCEPT !.stats.errors = @ + 1, !.ev = [ev1 EXCEPT !.bucket = "errors"]]]

\* `if replies_posted >= max_replies: break` (reply_standalone.py line 371)
LimitReached(R) == R.nposted >= R.maxr

\* One iteration of the loop of reply_to_comments of
\* agents/reply_standalone.py (lines 370-427) on entry R.cands[R.i].
\* pc = "aborted": an exception reached the function's except clause.
ReplyIterationStandalone(d, p, R, draft, resp, storeOk) ==
    LET c == R.cands[R.i]
        info == ClassifyCommentTypeStandalone(c.message, draft)
        fb == PostReplyToFacebookStandalone(resp)
        del == DeleteCommentFromDbStandalone(d, c.comment_id)
        \* the reply exists remotely when the Graph API accepted the request
        sent == IF resp.kind = "ok" THEN [p EXCEPT ![c.comment_id] = @ + 1] ELSE p
        ev0 == [NoEvent EXCEPT !.cid = c.comment_id, !.handles_max = R.handles]
        skip == [db |-> d, posted |-> p,
                 run |-> [R EXCEPT !.i = @ + 1, !.ev = [ev0 EXCEPT !.bucket = "skipped"]]]
        R1 == [R EXCEPT !.i = @ + 1, !.drafts = @ + 1]
        \* classify_comment_type is called inside `try: ... finally: db.close()`
        ev1 == [ev0 EXCEPT !.draft_type = info.type, !.held_at_call = R.handles,
                           !.unparseable = (draft.kind = "unparseable")]
        ev2 == [ev1 EXCEPT !.post_called = TRUE, !.reply = info.reply,
                           !.gone = MissingObject(resp)]
        R2 == [R1 EXCEPT !.attempts = @ + 1]
    IN  IF c.comment_id \in R.replied THEN skip
        ELSE IF c.sentiment \notin {"positive", "neutral"} THEN skip
        ELSE IF c.message = "" THEN skip
        ELSE IF info.type = "negative" \/ info.reply = ""
        THEN [db |-> d, posted |-> p,
              run |-> [R1 EXCEPT !.ev = [ev1 EXCEPT !.bucket = "skipped"]]]
        ELSE IF fb.success
        THEN [db |-> IF storeOk THEN StoreReplyStandalone(d, c, info, R.ts) ELSE d,
              posted |-> sent,
              run |-> IF storeOk
                      THEN [R2 EXCEPT !.nposted = @ + 1, !.posts = @ \cup {c.comment_id},
                                      !.writes = @ \cup {c.comment_id},
                                      !.ev = [ev2 EXCEPT !.post_ok = TRUE, !.wrote = TRUE,
                                                         !.bucket = "replied"]]
                      ELSE [R2 EXCEPT !.pc = "aborted", !.posts = @ \cup {c.comment_id},
                                      !.ev = [ev2 EXCEPT !.post_ok = TRUE, !.bucket = "replied"]]]
        ELSE [db |-> IF fb.cleanup THEN del.db ELSE d, posted |-> p,
              \* delete_comment_from_db opens its own handle (line 219)
              run |-> [R2 EXCEPT !.ev = [ev2 EXCEPT !.delete_called = fb.cleanup,
                                                    !.handles_max =
                                                        R.handles + (IF fb.cleanup THEN 1 ELSE 0),
                                                    !.bucket = "failed"]]]

\* The comment ids that have a Sentiment Record saying negative.
NegativeIds(d) ==
    {d[k].comment_id : k \in {x \in DOMAIN d : StartsWith(x, "sentiment:")
                                  /\ d[x].sentiment = "negative"}}

\* ------------------------------------------------------------------ system
Runners == {1, 2}
AllIdle == an.pc = "idle" /\ \A r \in Runners : run[r].pc = "idle"
NoOps == [ingest |-> 0, analyze |-> 0, reply |-> 0, cleanup |-> 0]
\* Operations are started one at a time, up to the bound of their class.
CanStart(class, max) == AllIdle /\ ops[class] < max
Started(class) == ops' = [ops EXCEPT ![class] = @ + 1]

PostRecord(content) ==
    [posted_to_facebook |-> content \in PostedContent,
     facebook_post_id |-> IF content \in PostedContent THEN <<8>> ELSE NoId,
     posted_to_page |-> IF content \in PostedContent THEN "PG1" ELSE ""]

\* The store before any ingestion: the content records of the posting UI.
ContentRecords == [k \in {ContentKey(c) : c \in ContentIds} |-> PostRecord(k.content)]

Idle ==
    /\ run = [r \in Runners |-> RunIdle]
    /\ an = AnIdle
    /\ posted = [c \in CommentIds |-> 0]
    /\ last = LastNone
    /\ ops = NoOps

Init == db = ContentRecords /\ Idle

\* The (content, post) pairs already reported as fetched, after `last`.
Fetched == last.prior \cup {[content |-> x.content, post |-> x.post] : x \in last.ingested}
Ingested(ret) == [ret EXCEPT !.prior = Fetched]

\* POST /admin-panel/api/content/<content_id>/comments/fetch
FetchCommentsFromFacebook ==
    /\ CanStart("ingest", MaxIngest)
    /\ \E req \in FetchRequests, resp \in FetchResponses(<<8>>), storeOk \in BOOLEAN :
         LET out == FetchAndStore(db, "fetch", req.hasData, req.page, req.content, req.post,
                                  resp, storeOk)
         IN  /\ db' = out.db
             /\ last' = Ingested(out.ret)
    /\ Started("ingest")
    /\ UNCHANGED <<run, an, posted>>

\* POST /admin-panel/api/posts/<post_id>/comments/refresh
RefreshPostComments ==
    /\ CanStart("ingest", MaxIngest)
    /\ \E req \in FetchRequests, resp \in FetchResponses(<<8>>), storeOk \in BOOLEAN :
         LET out == FetchAndStore(db, "refresh", req.hasData, req.page, req.content, <<8>>,
                                  resp, storeOk)
         IN  /\ db' = out.db
             /\ last' = Ingested(out.ret)
    /\ Started("ingest")
    /\ UNCHANGED <<run, an, posted>>

\* POST /admin-panel/api/comments/bulk-fetch
BulkFetchComments ==
    /\ CanStart("ingest", MaxIngest)
    /\ \E r8 \in FetchResponses(<<8>>), ok8 \in BOOLEAN :
         LET posts == PostsFromDb(db)
             out == [i \in 1..Len(posts) |-> [resp |-> r8, storeOk |-> ok8]]
             res == BulkFetch(db, out)
         IN  /\ db' = res.db
             /\ last' = Ingested(res.ret)
    /\ Started("ingest")
    /\ UNCHANGED <<run, an, posted>>

\* fetch_and_store_comments_for_post, as called by the display refresh route
FetchAndStoreCommentsForPost ==
    /\ CanStart("ingest", MaxIngest)
    /\ \E post \in PostIds, storeOk \in BOOLEAN :
         \E resp \in FetchResponses(post) :
           LET out == FetchAndStoreForPost(db, post, resp, storeOk)
           IN  /\ db' = out.db
               /\ last' = Ingested(out.ret)
    /\ Started("ingest")
    /\ UNCHANGED <<run, an, posted>>

\* Ingestion: the four entry points, called in any order on a new store.
Next ==
    \/ FetchCommentsFromFacebook
    \/ RefreshPostComments
    \/ BulkFetchComments
    \/ FetchAndStoreCommentsForPost

Spec == Init /\ [][Next]_vars

\* ---------------------------------------------------------- analysis runs
\* The stores ingestion leaves behind: for each target no snapshot, or a
\* snapshot of some of the post's comments.  An empty list is stored by the
\* display route only, which files it under the post's own content id.
Picks(t) ==
    {[has |-> FALSE, set |-> {}]}
    \cup {[has |-> TRUE, set |-> S] :
            S \in {X \in SUBSET RemoteOn(t[2]) : X # {} \/ t[1] \in PostedContent}}
WithSnapshot(d, t, pick) ==
    IF pick.has THEN StoreComments(d, t[2], t[1], ListOf(pick.set)) ELSE d
IngestedStores ==
    {WithSnapshot(WithSnapshot(ContentRecords, <<(<<7>>), (<<8>>)>>, a), <<(<<6>>), (<<8>>)>>, b) :
        a \in Picks(<<(<<7>>), (<<8>>)>>), b \in Picks(<<(<<6>>), (<<8>>)>>)}

InitAnalyze == db \in IngestedStores /\ Idle

\* analyze_all_comments(force_reanalyze): lines 253-267
AnalyzeStart ==
    /\ CanStart("analyze", MaxAnalyze)
    /\ \E force \in BOOLEAN :
         LET comments == GetAllCommentsFromDb(db)
         IN  IF Len(comments) = 0
             THEN /\ an' = an
                  /\ last' = [LastNone EXCEPT !.op = "analyze",
                                              !.variant = IF force THEN "force" ELSE ""]
             ELSE /\ an' = [AnIdle EXCEPT !.pc = "loop", !.force = force, !.queue = comments,
                                          !.i = 1, !.stats.total = Len(comments),
                                          !.repeat = (last.op = "analyze" /\ last.variant = "")]
                  /\ last' = last
    /\ Started("analyze")
    /\ UNCHANGED <<db, run, posted>>

\* One iteration of the loop of analyze_all_comments: lines 269-311
AnalyzeStep ==
    /\ an.pc = "loop"
    /\ an.i <= Len(an.queue)
    /\ \E answer \in SentimentAnswers, storeOk \in BOOLEAN :
         LET out == AnalyzeIteration(db, an, answer, storeOk)
         IN  /\ db' = out.db
             /\ an' = out.an
    /\ UNCHANGED <<run, posted, last, ops>>

\* analyze_all_comments returns its stats: lines 313-325
AnalyzeReturn ==
    /\ an.pc = "loop"
    /\ an.i > Len(an.queue)
    /\ last' = [LastNone EXCEPT !.op = "analyze", !.variant = IF an.force THEN "force" ELSE ""]
    /\ an' = AnIdle
    /\ UNCHANGED <<db, run, posted, ops>>

NextAnalyze == AnalyzeStart \/ AnalyzeStep \/ AnalyzeReturn

\* Analysis runs, one after another, on a store that ingestion has filled.
SpecAnalyze == InitAnalyze /\ [][NextAnalyze]_vars

\* ------------------------------------------------------------- reply runs
\* The store after analyze_all_comments has gone through queue q of store d
\* with the service answering ans[target, comment id] and every write
\* succeeding.
RECURSIVE Analyzed(_, _, _, _)
Analyzed(d, q, i, ans) ==
    IF i > Len(q) THEN d
    ELSE LET c == q[i]
             res == AnalyzeSentiment(c.message, ans[<<c.key.content, c.key.post>>, c.comment_id])
         IN  Analyzed(IF res.has_error THEN d
                      ELSE StoreSentiment(d, c.key, c.comment_id, SentimentData(c, res)),
                      q, i + 1, ans)
AnalyzedStores ==
    {Analyzed(d, GetAllCommentsFromDb(d), 1, ans) :
        d \in IngestedStores, ans \in [Targets \X CommentIds -> SentimentAnswers]}

InitReply == db \in AnalyzedStores /\ Idle

\* reply_to_comments(max_replies) of agents/reply.py: lines 428-449
ReplyStart(r) ==
    /\ CanStart("reply", MaxRuns)
    /\ \E n \in 0..MaxRepliesArg :
         LET comments == GetCommentsToReply(db)
         IN  IF Len(comments) = 0
             THEN /\ run' = run
                  /\ last' = [LastNone EXCEPT !.op = "reply", !.variant = "routes"]
             ELSE /\ run' = [run EXCEPT ![r] =
                               [RunIdle EXCEPT !.pc = "loop", !.variant = "routes", !.maxr = n,
                                               !.total = Len(comments),
                                               !.cands = Take(comments, n), !.i = 1,
                                               !.stats.total = Len(comments),
                                               !.stats.processed = Len(Take(comments, n)),
                                               !.negative = NegativeIds(db)]]
                  /\ last' = last
    /\ Started("reply")
    /\ UNCHANGED <<db, an, posted>>

\* One candidate of reply_to_comments of agents/reply.py
ReplyStep(r) ==
    /\ run[r].pc = "loop" /\ run[r].variant = "routes"
    /\ run[r].i <= Len(run[r].cands)
    /\ \E draft \in Drafts, resp \in PostResponses, storeOk \in BOOLEAN :
         LET out == ReplyIteration(db, posted, run[r], draft, resp, storeOk)
         IN  /\ db' = out.db
             /\ posted' = out.posted
             /\ run' = [run EXCEPT ![r] = out.run]
    /\ UNCHANGED <<an, last, ops>>

\* reply_to_comments of agents/reply.py returns its stats: lines 518-531
ReplyReturn(r) ==
    /\ run[r].pc = "loop" /\ run[r].variant = "routes"
    /\ run[r].i > Len(run[r].cands)
    /\ last' = [LastNone EXCEPT !.op = "reply", !.variant = "routes"]
    /\ run' = [run EXCEPT ![r] = RunIdle]
    /\ UNCHANGED <<db, an, posted, ops>>

\* reply_to_comments(max_replies) of agents/reply_standalone.py: lines 295-367
ReplyStartStandalone(r) ==
    /\ CanStart("reply", MaxRuns)
    /\ \E n \in 0..MaxRepliesArg :
         run' = [run EXCEPT ![r] =
                   [RunIdle EXCEPT !.pc = "loop", !.variant = "standalone", !.maxr = n,
                                   !.cands = ScanSentiments(db), !.i = 1,
                                   !.total = Len(ScanSentiments(db)),
                                   !.replied = RepliedComments(db), !.ts = ops.reply + 1,
                                   !.handles = 1,
                                   !.negative = NegativeIds(db)]]
    /\ Started("reply")
    /\ UNCHANGED <<db, an, posted, last>>

\* One entry of sentiment_data in reply_to_comments of reply_standalone.py
ReplyStepStandalone(r) ==
    /\ run[r].pc = "loop" /\ run[r].variant = "standalone"
    /\ run[r].i <= Len(run[r].cands)
    /\ ~LimitReached(run[r])
    /\ \E draft \in Drafts, resp \in PostResponses, storeOk \in BOOLEAN :
         LET out == ReplyIterationStandalone(db, posted, run[r], draft, resp, storeOk)
         IN  /\ db' = out.db
             /\ posted' = out.posted
             /\ run' = [run EXCEPT ![r] = out.run]
    /\ UNCHANGED <<an, last, ops>>

\* The standalone loop ends (exhausted, or the break at line 372) and the
\* function returns None: lines 429-435
ReplyReturnStandalone(r) ==
    /\ run[r].pc = "loop" /\ run[r].variant = "standalone"
    /\ (run[r].i > Len(run[r].cands) \/ LimitReached(run[r]))
    /\ last' = [LastNone EXCEPT !.op = "reply", !.variant = "standalone"]
    /\ run' = [run EXCEPT ![r] = RunIdle]
    /\ UNCHANGED <<db, an, posted, ops>>

\* An exception ends the invocation: it propagates out of reply.py's
\* reply_to_comments; reply_standalone.py prints it and returns.
ReplyAbort(r) ==
    /\ run[r].pc = "aborted"
    /\ last' = [LastNone EXCEPT !.op = "reply", !.variant = run[r].variant, !.ok = FALSE]
    /\ run' = [run EXCEPT ![r] = RunIdle]
    /\ UNCHANGED <<db, an, posted, ops>>

\* delete_comment_from_db(comment_id, comment_key) of agents/reply.py, called
\* for one comment id
Cleanup ==
    /\ CanStart("cleanup", MaxCleanups)
    /\ \E cid \in CommentIds :
         LET out == DeleteCommentFromDb(db, cid)
         IN  /\ db' = out.db
             /\ last' = [LastNone EXCEPT !.op = "cleanup", !.variant = "routes", !.cid = cid,
                                         !.ok = out.ret, !.n = out.deleted,
                                         !.repeat = (last.op = "cleanup" /\ last.cid = cid
                                                     /\ last.variant = "routes")]
    /\ Started("cleanup")
    /\ UNCHANGED <<run, an, posted>>

\* delete_comment_from_db(comment_id) of agents/reply_standalone.py
CleanupStandalone ==
    /\ CanStart("cleanup", MaxCleanups)
    /\ \E cid \in CommentIds :
         LET out == DeleteCommentFromDbStandalone(db, cid)
         IN  /\ db' = out.db
             /\ last' = [LastNone EXCEPT !.op = "cleanup", !.variant = "standalone", !.cid = cid,
                                         !.ok = out.ret, !.n = out.deleted,
                                         !.repeat = (last.op = "cleanup" /\ last.cid = cid
                                                     /\ last.variant = "standalone")]
    /\ Started("cleanup")
    /\ UNCHANGED <<run, an, posted>>

\* Invocations run one at a time (section 5 of the design: callers serialize).
NextReply ==
    \/ ReplyStart(1)
    \/ ReplyStep(1)
    \/ ReplyReturn(1)
    \/ ReplyStartStandalone(1)
    \/ ReplyStepStandalone(1)
    \/ ReplyReturnStandalone(1)
    \/ ReplyAbort(1)
    \/ Cleanup
    \/ CleanupStandalone

\* Reply runs and cleanups, one after another, on a store that ingestion
\* and analysis have filled.
SpecReply == InitReply /\ [][NextReply]_vars

\* ------------------------------------------- concurrent reply invocations
\* The stores of the race: post 8 ingested under content 7 and analyzed.
RaceStores ==
    {d \in AnalyzedStores : SnapKey(<<6>>, <<8>>) \notin DOMAIN d}

InitRace == db \in RaceStores /\ Idle

\* reply_to_comments(max_replies) of agents/reply.py entered by invocation r
\* (lines 428-449).  Nothing in the function or in get_comments_to_reply
\* waits for, or looks at, another invocation.
RaceStart(r) ==
    /\ run[r].pc = "idle"
    /\ ops.reply < MaxRaceRuns
    /\ \E n \in 1..MaxRepliesArg :
         LET comments == GetCommentsToReply(db)
         IN  /\ Len(comments) > 0
             /\ run' = [run EXCEPT ![r] =
                          [RunIdle EXCEPT !.pc = "loop", !.variant = "routes", !.maxr = n,
                                          !.total = Len(comments),
                                          !.cands = Take(comments, n), !.i = 1,
                                          !.stats.total = Len(comments),
                                          !.stats.processed = Len(Take(comments, n)),
                                          !.negative = NegativeIds(db)]]
    /\ Started("reply")
    /\ UNCHANGED <<db, an, posted, last>>

\* What the services answer during the race: a well-formed draft (a question or a
\* negative) or an unparseable one; the reply accepted, the comment gone, or no connection.
RaceDrafts ==
    {x \in Drafts : \/ x.kind = "unparseable"
                    \/ (x.kind = "json" /\ x.type \in {"question", "negative"} /\ x.reply = "text")}
RaceResponses ==
    {x \in PostResponses : x.kind \in {"ok", "exception"} \/ (x.kind = "http_raw" /\ x.text = MsgGone)}

\* One candidate of reply_to_comments of agents/reply.py, in invocation r
RaceStep(r) ==
    /\ run[r].pc = "loop" /\ run[r].variant = "routes"
    /\ run[r].i <= Len(run[r].cands)
    /\ \E draft \in RaceDrafts, resp \in RaceResponses, storeOk \in BOOLEAN :
         LET out == ReplyIteration(db, posted, run[r], draft, resp, storeOk)
         IN  /\ db' = out.db
             /\ posted' = out.posted
             /\ run' = [run EXCEPT ![r] = out.run]
    /\ UNCHANGED <<an, last, ops>>

\* Two invocations of the routes agent on one store, their steps interleaved
\* in any order.
NextRace ==
    \E r \in Runners :
        \/ RaceStart(r)
        \/ RaceStep(r)
        \/ ReplyReturn(r)
        \/ ReplyAbort(r)

SpecRace == InitRace /\ [][NextRace]_vars

\* ------------------------------------------------------ bulk ingestion
\* The pages content was posted to: PG1 has a token, PG2 is configured
\* without one, PG3 is no longer in creds.json.
BulkPages == {"PG1", "PG2", "PG3"}

\* The content record after POST /content/<id>/post (post.py lines 191-201).
PostedRecord(page, post) ==
    [posted_to_facebook |-> TRUE, facebook_post_id |-> post, posted_to_page |-> page]

\* Stores in which content 7 was posted as post 8 and content 6 either was
\* posted as post 9 (a post without comments) or was not posted.
BulkStores ==
    {[k \in {ContentKey(c) : c \in ContentIds} |->
         IF k.content = <<7>> THEN PostedRecord(p7, <<8>>)
         ELSE IF p6 = "" THEN PostRecord(<<6>>)
         ELSE PostedRecord(p6, <<9>>)] : p7 \in BulkPages, p6 \in BulkPages \cup {""}}

InitBulk == db \in BulkStores /\ Idle

\* POST /admin-panel/api/comments/bulk-fetch, each post's fetch and store
\* coming back on its own.
BulkFetchAll ==
    /\ CanStart("ingest", MaxIngest)
    /\ LET posts == PostsFromDb(db)
       IN  \E out \in [1..Len(posts) ->
                         [resp : FetchResponses(<<8>>) \cup FetchResponses(<<9>>),
                          storeOk : BOOLEAN]] :
             /\ \A i \in 1..Len(posts) :
                   out[i].resp \in FetchResponses(posts[i].facebook_post_id)
             /\ LET res == BulkFetch(db, out)
                IN  /\ db' = res.db
                    /\ last' = Ingested(res.ret)
    /\ Started("ingest")
    /\ UNCHANGED <<run, an, posted>>

NextBulk == BulkFetchAll

SpecBulk == InitBulk /\ [][NextBulk]_vars

\* ------------------------------------------- ingestion after analysis
\* Analysed stores, some of them with the Reply Record of their first
\* candidate.
ReingestStores ==
    RaceStores
    \cup {StoreReply(d, GetCommentsToReply(d)[1],
                     [type |-> "general", reply |-> "text"]) :
             d \in {x \in RaceStores : Len(GetCommentsToReply(x)) > 0}}

InitReingest == db \in ReingestStores /\ Idle

\* The ingestion entry points called on a store that holds Sentiment and
\* Reply Records.
NextReingest == ops.ingest < MaxReingest /\ Next

SpecReingest == InitReingest /\ [][NextReingest]_vars

\* ------------------------------------------------ sequential reply runs
\* reply_to_comments of agents/reply.py entered only after the previous
\* invocation has returned.
SeqStart == AllIdle /\ RaceStart(1)

\* Runs of the routes agent one after another on one store; a write of the
\* Reply Record may fail.
NextSeq == SeqStart \/ RaceStep(1) \/ ReplyReturn(1) \/ ReplyAbort(1)

SpecSeq == InitRace /\ [][NextSeq]_vars

\* ------------------------------------------- runs of the two variants
\* reply_to_comments of agents/reply.py, entered when no run is under way.
AltStart ==
    /\ AllIdle /\ ops.reply < MaxAltRuns
    /\ \E n \in 1..MaxRepliesArg :
         LET comments == GetCommentsToReply(db)
         IN  /\ Len(comments) > 0
             /\ run' = [run EXCEPT ![1] =
                          [RunIdle EXCEPT !.pc = "loop", !.variant = "routes", !.maxr = n,
                                          !.total = Len(comments),
                                          !.cands = Take(comments, n), !.i = 1,
                                          !.stats.total = Len(comments),
                                          !.stats.processed = Len(Take(comments, n)),
                                          !.negative = NegativeIds(db)]]
    /\ Started("reply")
    /\ UNCHANGED <<db, an, posted, last>>

\* reply_to_comments of agents/reply_standalone.py, entered when no run is
\* under way (lines 295-367).
AltStartStandalone ==
    /\ AllIdle /\ ops.reply < MaxAltRuns
    /\ \E n \in 1..MaxRepliesArg :
         run' = [run EXCEPT ![1] =
                   [RunIdle EXCEPT !.pc = "loop", !.variant = "standalone", !.maxr = n,
                                   !.cands = ScanSentiments(db), !.i = 1,
                                   !.total = Len(ScanSentiments(db)),
                                   !.replied = RepliedComments(db), !.ts = ops.reply + 1,
                                   !.handles = 1,
                                   !.negative = NegativeIds(db)]]
    /\ Started("reply")
    /\ UNCHANGED <<db, an, posted, last>>

\* What the services answer in these runs: a well-formed draft or an
\* unparseable one; the reply accepted or no connection.
AltDrafts ==
    {x \in Drafts : \/ x.kind = "unparseable"
                    \/ (x.kind = "json" /\ x.type = "question" /\ x.reply = "text")}
AltResponses == {x \in PostResponses : x.kind \in {"ok", "exception"}}

\* One candidate of the routes agent's run.
AltStep ==
    /\ run[1].pc = "loop" /\ run[1].variant = "routes"
    /\ run[1].i <= Len(run[1].cands)
    /\ \E draft \in AltDrafts, resp \in AltResponses, storeOk \in BOOLEAN :
         LET out == ReplyIteration(db, posted, run[1], draft, resp, storeOk)
         IN  /\ db' = out.db
             /\ posted' = out.posted
             /\ run' = [run EXCEPT ![1] = out.run]
    /\ UNCHANGED <<an, last, ops>>

\* One entry of sentiment_data in the standalone agent's run.
AltStepStandalone ==
    /\ run[1].pc = "loop" /\ run[1].variant = "standalone"
    /\ run[1].i <= Len(run[1].cands)
    /\ ~LimitReached(run[1])
    /\ \E draft \in AltDrafts, resp \in AltResponses, storeOk \in BOOLEAN :
         LET out == ReplyIterationStandalone(db, posted, run[1], draft, resp, storeOk)
         IN  /\ db' = out.db
             /\ posted' = out.posted
             /\ run' = [run EXCEPT ![1] = out.run]
    /\ UNCHANGED <<an, last, ops>>

\* Runs of the two agents one after another, in any order, on one store.
NextAlt ==
    \/ AltStart
    \/ AltStartStandalone
    \/ AltStep
    \/ AltStepStandalone
    \/ ReplyReturn(1)
    \/ ReplyReturnStandalone(1)
    \/ ReplyAbort(1)

SpecAlt == InitReply /\ [][NextAlt]_vars

\* ------------------------------------------------- repeated reply runs
\* reply_to_comments(max_replies) of agents/reply.py with max_replies >= 1,
\* invoked again and again (lines 428-449).
RepeatStart ==
    /\ AllIdle
    /\ \E n \in 1..MaxRepliesArg :
         LET comments == GetCommentsToReply(db)
         IN  /\ Len(comments) > 0
             /\ run' = [run EXCEPT ![1] =
                          [RunIdle EXCEPT !.pc = "loop", !.variant = "routes", !.maxr = n,
                                          !.total = Len(comments),
                                          !.cands = Take(comments, n), !.i = 1,
                                          !.stats.total = Len(comments),
                                          !.stats.processed = Len(Take(comments, n)),
                                          !.negative = NegativeIds(db)]]
    /\ UNCHANGED <<db, an, posted, last, ops>>

\* One candidate of the run; the store takes the Reply Record.
RepeatStep ==
    /\ run[1].pc = "loop" /\ run[1].variant = "routes"
    /\ run[1].i <= Len(run[1].cands)
    /\ \E draft \in Drafts, resp \in PostResponses :
         LET out == ReplyIteration(db, posted, run[1], draft, resp, TRUE)
         IN  /\ db' = out.db
             /\ posted' = out.posted
             /\ run' = [run EXCEPT ![1] = out.run]
    /\ UNCHANGED <<an, last, ops>>

NextRepeat == RepeatStart \/ RepeatStep \/ ReplyReturn(1) \/ ReplyAbort(1)

\* Sequential runs without end, no new records arriving: a run that can be
\* started or continued eventually is.
SpecRepeat == InitRace /\ [][NextRepeat]_vars /\ WF_vars(NextRepeat)

\* ------------------------------------------- cleanup among similar ids
\* Two comments of post 8 of which one id is the beginning of the other.
LongComments ==
    {[id |-> <<1>>, message |-> "nice"], [id |-> <<1, 2>>, message |-> "why"]}
LongIds == {c.id : c \in LongComments}

\* Store d after the analysis stored the service's answer lab for comment c
\* of the snapshot comments:7:8 ("none": no record) and, if replied, after a
\* reply run stored its Reply Record.
WithRecords(d, c, lab, replied) ==
    LET K == SnapKey(<<7>>, <<8>>)
        entry == [key |-> K, comment_id |-> c.id, message |-> c.message]
        d1 == IF lab = "none" THEN d
              ELSE StoreSentiment(d, K, c.id,
                                  SentimentData(entry, AnalyzeSentiment(c.message, lab)))
    IN  IF lab = "none" \/ ~replied THEN d1
        ELSE StoreReply(d1, [comment_id |-> c.id, comment_key |-> K, sentiment |-> lab],
                        [type |-> "general", reply |-> "text"])

LongStores ==
    LET snap == StoreComments(ContentRecords, <<8>>, <<7>>, ListOf(LongComments))
        c1 == CHOOSE c \in LongComments : c.id = <<1>>
        c2 == CHOOSE c \in LongComments : c.id = <<1, 2>>
    IN  {WithRecords(WithRecords(snap, c1, l1, r1), c2, l2, r2) :
            l1 \in {"none", "positive", "negative", "unexpected"}, r1 \in BOOLEAN,
            l2 \in {"none", "positive", "negative", "unexpected"}, r2 \in BOOLEAN}

InitLong ==
    /\ db \in LongStores
    /\ run = [r \in Runners |-> RunIdle]
    /\ an = AnIdle
    /\ posted = [c \in CommentIds |-> 0]
    /\ last = LastNone
    /\ ops = NoOps

\* delete_comment_from_db(comment_id, comment_key) of agents/reply.py
CleanupLong ==
    /\ CanStart("cleanup", MaxCleanups)
    /\ \E cid \in LongIds :
         LET out == DeleteCommentFromDb(db, cid)
         IN  /\ db' = out.db
             /\ last' = [LastNone EXCEPT !.op = "cleanup", !.variant = "routes", !.cid = cid,
                                         !.ok = out.ret, !.n = out.deleted]
    /\ Started("cleanup")
    /\ UNCHANGED <<run, an, posted>>

\* delete_comment_from_db(comment_id) of agents/reply_standalone.py
CleanupLongStandalone ==
    /\ CanStart("cleanup", MaxCleanups)
    /\ \E cid \in LongIds :
         LET out == DeleteCommentFromDbStandalone(db, cid)
         IN  /\ db' = out.db
             /\ last' = [LastNone EXCEPT !.op = "cleanup", !.variant = "standalone",
                                         !.cid = cid, !.ok = out.ret, !.n = out.deleted]
    /\ Started("cleanup")
    /\ UNCHANGED <<run, an, posted>>

NextLong == CleanupLong \/ CleanupLongStandalone

SpecLong == InitLong /\ [][NextLong]_vars

\* ---------------------------------------------------------------- sweeps
\* get_all_comments_from_sentiment_db(): one entry per sentiment record, in
\* scan order.
GetAllCommentsFromSentimentDb(d) ==
    LET ks == ScanKeys({k \in DOMAIN d : StartsWith(k, "sentiment:")})
    IN  [i \in 1..Len(ks) |->
           [comment_id |-> d[ks[i]].comment_id, comment_key |-> d[ks[i]].comment_key]]

\* What the Graph API answers to an existence probe: the object is there,
\* the object is gone, the token is refused, or no connection.
SweepResponses ==
    {x \in PostResponses : \/ x.kind \in {"ok", "exception"}
                           \/ (x.kind = "http_json" /\ x.env \in {EnvGone, EnvToken})}

\* checked: the comment ids probed; missing: those whose probe came back
\* with a missing-object envelope.
SweepStart(d, p) ==
    [db |-> d, posted |-> p, checked |-> {}, missing |-> {}, deleted |-> 0, errors |-> 0]

\* The loop of cleanup_orphaned_comments of agents/reply.py (lines 559-578):
\* the probe is post_reply_to_facebook(comment_id, "").
RECURSIVE SweepLoop(_, _, _, _)
SweepLoop(list, i, probes, acc) ==
    IF i > Len(list) THEN acc
    ELSE LET c == list[i]
             resp == probes[i]
             fb == PostReplyToFacebook(resp)
             del == DeleteCommentFromDb(acc.db, c.comment_id)
             seen == [acc EXCEPT !.checked = @ \cup {c.comment_id},
                                 !.missing = IF MissingObject(resp)
                                             THEN @ \cup {c.comment_id} ELSE @,
                                 !.posted = IF resp.kind = "ok"
                                            THEN [@ EXCEPT ![c.comment_id] = @ + 1] ELSE @]
         IN  IF ~fb.success /\ NotFoundFromMessage(fb.error)
             THEN SweepLoop(list, i + 1, probes,
                            IF del.ret
                            THEN [seen EXCEPT !.db = del.db, !.deleted = @ + 1]
                            ELSE [seen EXCEPT !.db = del.db, !.errors = @ + 1])
             ELSE SweepLoop(list, i + 1, probes, seen)

\* check_comment_exists of agents/reply_standalone.py: False only for an
\* error body that is_comment_not_found_error accepts.
CheckCommentExists(resp) ==
    IF Len(Apps) = 0 THEN TRUE
    ELSE IF Apps[1].password = "" THEN TRUE
    ELSE IF resp.kind = "ok" THEN TRUE
    ELSE IF resp.kind = "http_json" THEN ~IsCommentNotFoundErrorStandalone(resp.env)
    ELSE TRUE

\* The first pass of cleanup_orphaned_comments of reply_standalone.py (lines
\* 450-486): the 'id' of every value stored under a key starting "comment:".
CommentIdsStandalone(d) ==
    {d[k].id : k \in {x \in DOMAIN d : StartsWith(x, "comment:")}}

\* The second pass (lines 491-498), over the collected ids.
RECURSIVE SweepLoopStandalone(_, _, _)
SweepLoopStandalone(ids, probes, acc) ==
    IF ids = {} THEN acc
    ELSE LET cid == CHOOSE x \in ids : \A y \in ids : Num(x) <= Num(y)
             resp == probes[cid]
             del == DeleteCommentFromDbStandalone(acc.db, cid)
             seen == [acc EXCEPT !.checked = @ \cup {cid},
                                 !.missing = IF MissingObject(resp) THEN @ \cup {cid} ELSE @]
         IN  IF CheckCommentExists(resp)
             THEN SweepLoopStandalone(ids \ {cid}, probes, seen)
             ELSE SweepLoopStandalone(ids \ {cid}, probes,
                                      [seen EXCEPT !.db = del.db, !.deleted = @ + 1])

\* cleanup_orphaned_comments() of agents/reply.py
CleanupOrphanedComments ==
    /\ CanStart("cleanup", MaxSweeps)
    /\ LET all_comments == GetAllCommentsFromSentimentDb(db)
       IN  \E probes \in [1..Len(all_comments) -> SweepResponses] :
             LET out == SweepLoop(all_comments, 1, probes, SweepStart(db, posted))
             IN  /\ db' = out.db
                 /\ posted' = out.posted
                 /\ last' = [LastNone EXCEPT !.op = "sweep", !.variant = "routes",
                                             !.n = out.deleted, !.checked = out.checked,
                                             !.missing = out.missing]
    /\ Started("cleanup")
    /\ UNCHANGED <<run, an>>

\* cleanup_orphaned_comments() of agents/reply_standalone.py
CleanupOrphanedCommentsStandalone ==
    /\ CanStart("cleanup", MaxSweeps)
    /\ \E probes \in [CommentIds -> SweepResponses] :
         LET out == SweepLoopStandalone(CommentIdsStandalone(db), probes, SweepStart(db, posted))
         IN  /\ db' = out.db
             /\ posted' = out.posted
             /\ last' = [LastNone EXCEPT !.op = "sweep", !.variant = "standalone",
                                         !.n = out.deleted, !.checked = out.checked,
                                         !.missing = out.missing]
    /\ Started("cleanup")
    /\ UNCHANGED <<run, an>>

NextSweep == CleanupOrphanedComments \/ CleanupOrphanedCommentsStandalone

\* One sweep of either agent on a store that ingestion and analysis have
\* filled.
SpecSweep == InitReply /\ [][NextSweep]_vars

\* ------------------------------------------------- the not-found predicate
\* The error envelopes the two is_comment_not_found_error functions are
\* applied to: any of the messages with any code and subcode (0: absent).
ErrorMessages ==
    {MsgGone, MsgCommentGone, MsgToken, MsgParam, MsgUnknown, MsgPermissions, MsgNotLoaded}
ErrorInputs == [message : ErrorMessages, code : {0, 100, 190, 200, 803}, error_subcode : {0, 33, 460}]

InitNotFound ==
    /\ db = ContentRecords
    /\ run = [r \in Runners |-> RunIdle]
    /\ an = AnIdle
    /\ posted = [c \in CommentIds |-> 0]
    /\ ops = NoOps
    /\ \E e \in ErrorInputs : last = [op |-> "error", err |-> e]

\* Both agents test the envelope
IsCommentNotFound ==
    /\ last.op = "error"
    /\ last' = [op |-> "is_comment_not_found_error", err |-> last.err,
                routes |-> IsCommentNotFoundError(last.err),
                standalone |-> IsCommentNotFoundErrorStandalone(last.err)]
    /\ UNCHANGED <<db, run, an, posted, ops>>

NextNotFound == IsCommentNotFound

SpecNotFound == InitNotFound /\ [][NextNotFound]_vars

\* ------------------------------------------------------ blank comment text
\* The comment texts handed to the two services: empty, whitespace only, and
\* the texts of the comments.
CommentTexts == {"", " "} \cup {c.message : c \in RemoteComments}

InitBlank ==
    /\ db = ContentRecords
    /\ run = [r \in Runners |-> RunIdle]
    /\ an = AnIdle
    /\ posted = [c \in CommentIds |-> 0]
    /\ ops = NoOps
    /\ \E t \in CommentTexts, draft \in Drafts, answer \in SentimentAnswers :
          last = [op |-> "text", text |-> t, draft |-> draft, answer |-> answer]

\* classify_comment_type of both agents and analyze_sentiment, on the text
Classify ==
    /\ last.op = "text"
    /\ last' = [op |-> "classify", text |-> last.text,
                routes |-> ClassifyCommentType(last.text, last.draft),
                standalone |-> ClassifyCommentTypeStandalone(last.text, last.draft),
                sentiment |-> AnalyzeSentiment(last.text, last.answer)]
    /\ UNCHANGED <<db, run, an, posted, ops>>

NextBlank == Classify

SpecBlank == InitBlank /\ [][NextBlank]_vars

\* ================================================================ properties
\* The Reply Records of a comment id, and every record that references it.
RepliesOf(d, cid) == {k \in DOMAIN d : StartsWith(k, "reply:") /\ d[k].comment_id = cid}
References(d, cid) ==
    {k \in DOMAIN d :
        \/ (StartsWith(k, "sentiment:") \/ StartsWith(k, "reply:")) /\ d[k].comment_id = cid
        \/ StartsWith(k, "comments:") /\ \E i \in 1..Len(d[k].comments) : d[k].comments[i].id = cid}

\* C1: after any number of reply runs the store holds, for every comment id,
\* at most one Reply Record whose comment_id is that id, however many
\* snapshots contain the comment.
C1_AtMostOneReplyRecord ==
    \A cid \in CommentIds : Cardinality(RepliesOf(db, cid)) <= 1

\* C2: in every reply run, no remote reply is posted and no Reply Record is
\* written for a comment that had a Sentiment Record saying negative when the
\* candidates were selected.
C2_NoReplyToNegative ==
    \A r \in Runners : \A cid \in run[r].negative :
        cid \notin run[r].posts /\ cid \notin run[r].writes

C4_CleanupComplete ==
    (AllIdle /\ last.op = "cleanup") => References(db, last.cid) = {}

\* C5: a cleanup that directly follows a cleanup of the same comment id
\* deletes nothing and reports a normal result with deleted count 0.
C5_SecondCleanupIsNormal ==
    (last.op = "cleanup" /\ last.repeat) => (last.ok /\ last.n = 0)

\* C6: after a successful ingestion of a (content, post) pair that had been
\* ingested successfully before, the snapshot of the pair holds exactly the
\* list that was fetched last.
C6_SnapshotIsLastFetched ==
    \A x \in last.ingested :
        [content |-> x.content, post |-> x.post] \in last.prior
            => IF SnapKey(x.content, x.post) \in DOMAIN db
               THEN db[SnapKey(x.content, x.post)].comments = x.fetched
               ELSE x.fetched = <<>>

\* C7: when the post of a reply in reply_to_comments of agents/reply.py
\* fails with an error envelope that denotes a missing object, the cleanup
\* is called for the comment and the candidate is counted under cleaned_up.
C7_MissingObjectIsCleanedUp ==
    \A r \in Runners :
        (run[r].variant = "routes" /\ run[r].ev.gone)
            => (run[r].ev.delete_called /\ run[r].ev.bucket = "cleaned_up")

\* C8: no outcome of drafting, posting or storing for one candidate makes
\* reply_to_comments of agents/reply.py leave its loop before the last
\* candidate of the run.
C8_BatchNeverAborts ==
    \A r \in Runners : run[r].variant = "routes" => run[r].pc # "aborted"

\* C9: in both reply agents, a candidate whose draft has type negative gets
\* no post call and no Reply Record in that run.
C9_NegativeDraftNotPosted ==
    \A r \in Runners :
        run[r].ev.draft_type = "negative" => (~run[r].ev.post_called /\ ~run[r].ev.wrote)

\* C10: a reply run with max_replies = n drafts for at most n candidates and
\* attempts to post for at most n candidates.
C10_BoundedByMaxReplies ==
    \A r \in Runners : run[r].drafts <= run[r].maxr /\ run[r].attempts <= run[r].maxr

\* C11: both is_comment_not_found_error functions return true exactly for
\* the envelopes with (code, subcode) = (100, 33) or a message containing
\* "does not exist" or "cannot be loaded", and so agree on every envelope.
C11_NotFoundExactly ==
    last.op = "is_comment_not_found_error"
        => LET missing == MissingObject([kind |-> "http_json", env |-> last.err, text |-> ""])
           IN  last.routes = missing /\ last.standalone = missing

\* C12: after any sequence of ingestions and analysis runs the store holds
\* at most one Sentiment Record per comment id.
C12_AtMostOneSentimentRecord ==
    \A cid \in CommentIds :
        Cardinality({k \in DOMAIN db : StartsWith(k, "sentiment:") /\ db[k].comment_id = cid}) <= 1

\* The per-post results of the last response that report a failure.
FailedResults ==
    {[content |-> last.report.results[i].content_id, post |-> last.report.results[i].post_id] :
        i \in {j \in 1..Len(last.report.results) : ~last.report.results[j].success}}

\* C13: an ingestion whose remote fetch for a post came back with an error
\* writes nothing to the store and reports the failure: the request fails,
\* or, in the bulk endpoint, the post's result has success = false.
C13_RemoteErrorWritesNothing ==
    [][(last'.op = "ingest" /\ last'.errored # {})
          => /\ db' = db
             /\ IF last'.entry = "bulk"
                THEN last'.errored \subseteq FailedResults'
                ELSE ~last'.ok]_vars

\* C13 witness: a fetch failed remotely for a pair that has a snapshot.
C13_Witness ==
    /\ last.op = "ingest" /\ last.errored # {}
    /\ \E x \in last.errored :
          SnapKey(x.content, x.post) \in DOMAIN db /\ db[SnapKey(x.content, x.post)].comments # <<>>

\* C14: two invocations of the reply agent running at once are not kept
\* apart.  An invocation that starts while another is in its loop selects
\* what the store shows: a comment the other invocation still holds, with its
\* sentiment record present and no reply record yet, is among its candidates
\* unless max_replies cut the list.  (The witness is the double post.)
C14_SelectionIgnoresRunningInvocations ==
    [][\A r \in Runners, o \in Runners :
         (r # o /\ run[r].pc = "idle" /\ run'[r].pc = "loop" /\ run[o].pc = "loop")
            => \A j \in run[o].i..Len(run[o].cands) :
                 LET c == run[o].cands[j]
                 IN  (SentKey(c.comment_key, c.comment_id) \in DOMAIN db
                        /\ RepliesOf(db, c.comment_id) = {})
                       => \/ \E i \in 1..Len(run'[r].cands) :
                                run'[r].cands[i].comment_id = c.comment_id
                          \/ Len(run'[r].cands) = run'[r].maxr]_vars
\* Both invocations hold the same comment as a candidate and both have
\* posted a remote reply to it.
C14_Witness ==
    \E c \in CommentIds :
        /\ posted[c] = 2
        /\ \A r \in Runners :
              /\ c \in run[r].posts
              /\ \E i \in 1..Len(run[r].cands) : run[r].cands[i].comment_id = c

\* C15: a Reply Record is written only after the remote reply to its comment
\* was posted in the same invocation: the loop iteration that writes the
\* record of comment c is the one that posted the reply to c, so every Reply
\* Record in the store stands for a reply that exists remotely.
C15_ReplyRecordOnlyAfterPost ==
    [][/\ \A k \in DOMAIN db' :
             (k.kind = "reply" /\ k \notin DOMAIN db)
                => posted'[db'[k].comment_id] = posted[db'[k].comment_id] + 1
       /\ \A r \in Runners :
             (run'[r].i = run[r].i + 1 /\ run[r].pc = "loop" /\ run'[r].ev.wrote)
                => /\ run'[r].ev.post_ok
                   /\ posted'[run'[r].ev.cid] = posted[run'[r].ev.cid] + 1
                   /\ RepliesOf(db', run'[r].ev.cid) # {}]_vars
\* An iteration has just posted a reply and written its record.
C15_Witness ==
    \E r \in Runners :
        /\ run[r].ev.wrote /\ run[r].ev.post_ok
        /\ posted[run[r].ev.cid] >= 1
        /\ RepliesOf(db, run[r].ev.cid) # {}

\* C16: store handles are scoped to one store operation: an invocation that
\* is over holds none, no handle is open while the drafting service or the
\* Graph API is called, and no second handle is opened while one is held.
C16_HandlesScoped ==
    \A r \in Runners :
        /\ run[r].pc = "idle" => run[r].handles = 0
        /\ run[r].ev.held_at_call = 0
        /\ run[r].ev.handles_max <= 1

\* C17: when the drafting service's text cannot be parsed, the iteration takes
\* {type: general, reply: "Thank you for your comment!"} as the draft and goes
\* on to post it; the candidate is not counted as an error.
C17_UnparseableDraftIsPosted ==
    \A r \in Runners :
        run[r].ev.unparseable
           => /\ run[r].ev.post_called
              /\ run[r].ev.draft_type = "general"
              /\ run[r].ev.reply = Thanks
              /\ run[r].ev.bucket # "errors"

\* The Sentiment Record of the comment the last iteration worked on.
LastAnalyzed(d) == d[SentKey(an'.ev.key, an'.ev.cid)]

\* C18: every Sentiment Record has a label in {positive, negative, neutral}.
\* An iteration whose service answer is any other text stores the comment's
\* record as neutral with confidence 0.5 and the note, and counts the comment
\* as analyzed (and as neutral).  The one iteration with such an answer that
\* stores nothing is the one whose store write failed: it leaves the store
\* as it was and counts an error.
C18_UnexpectedAnswerStoredAsNeutral ==
    [][/\ \A k \in DOMAIN db' : k.kind = "sentiment" => db'[k].sentiment \in Labels
       /\ (an.pc = "loop" /\ an'.i = an.i + 1 /\ an'.ev.offlabel)
             => IF an'.ev.wrote
                THEN /\ SentKey(an'.ev.key, an'.ev.cid) \in DOMAIN db'
                     /\ LastAnalyzed(db').sentiment = "neutral"
                     /\ LastAnalyzed(db').confidence = 5
                     /\ LastAnalyzed(db').note
                     /\ an'.stats.analyzed = an.stats.analyzed + 1
                     /\ an'.stats.neutral = an.stats.neutral + 1
                     /\ an'.stats.errors = an.stats.errors
                ELSE /\ db' = db
                     /\ an'.stats.errors = an.stats.errors + 1
                     /\ an'.stats.analyzed = an.stats.analyzed]_vars
\* An unexpected answer has just been stored as neutral with its note.
C18_Witness ==
    /\ an.ev.offlabel /\ an.ev.wrote
    /\ SentKey(an.ev.key, an.ev.cid) \in DOMAIN db
    /\ db[SentKey(an.ev.key, an.ev.cid)].sentiment = "neutral"
    /\ db[SentKey(an.ev.key, an.ev.cid)].note
    /\ an.stats.analyzed >= 1

\* The comment ids that occur in the stored Comment Snapshots.
SnapshotIds(d) ==
    UNION {{d[k].comments[j].id : j \in 1..Len(d[k].comments)} :
              k \in {x \in DOMAIN d : StartsWith(x, "comments:")}}

\* C19: a sweep probes every comment id that occurs in a stored snapshot;
\* when it returns, no record references an id whose probe reported the
\* comment missing, and the records of every other probed id are as before.
C19_SweepChecksEverySnapshotComment ==
    [][last'.op = "sweep"
         => /\ SnapshotIds(db) \subseteq last'.checked
            /\ \A id \in last'.missing : References(db', id) = {}
            /\ \A id \in last'.checked \ last'.missing :
                   References(db', id) = References(db, id)]_vars

\* The posted Posts of a store: (content id, post id, page).
PostedPosts(d) ==
    {[content |-> k.content, post |-> d[k].facebook_post_id, page |-> d[k].posted_to_page] :
        k \in {x \in DOMAIN d : StartsWith(x, "content:") /\ d[x].posted_to_facebook}}
\* creds.json holds a token for the page.
HasCredential(page) ==
    \E i \in 1..Len(Apps) : Apps[i].page_id = page /\ Apps[i].password # ""
RECURSIVE SumCounts(_, _)
SumCounts(results, i) ==
    IF i > Len(results) THEN 0
    ELSE (IF results[i].success THEN results[i].comments_count ELSE 0) + SumCounts(results, i + 1)
ResultsFor(results, p) ==
    {i \in 1..Len(results) : results[i].content_id = p.content /\ results[i].post_id = p.post}

\* C20: a bulk fetch over a store with posted Posts answers 200 with a report
\* in which every posted Post has exactly one result, total_posts_processed
\* counts the posted Posts, successful_fetches is the number of results with
\* success = true and total_comments_fetched the sum of their comment
\* counts.  A post whose page has no credential gets a failed result and its
\* snapshot is left alone; a post reported successful with comments has them
\* as its snapshot.
C20_BulkReportConsistent ==
    [][(last'.op = "ingest" /\ last'.entry = "bulk" /\ PostedPosts(db) # {})
         => LET report == last'.report
                results == report.results
            IN  /\ last'.status = 200
                /\ report.total_posts_processed = Cardinality(PostedPosts(db))
                /\ Len(results) = report.total_posts_processed
                /\ \A p \in PostedPosts(db) :
                      /\ Cardinality(ResultsFor(results, p)) = 1
                      /\ \A i \in ResultsFor(results, p) :
                            /\ ~HasCredential(p.page)
                                  => /\ ~results[i].success
                                     /\ (SnapKey(p.content, p.post) \in DOMAIN db')
                                           = (SnapKey(p.content, p.post) \in DOMAIN db)
                                     /\ SnapKey(p.content, p.post) \in DOMAIN db
                                           => db'[SnapKey(p.content, p.post)]
                                                = db[SnapKey(p.content, p.post)]
                            /\ (results[i].success /\ results[i].comments_count > 0)
                                  => /\ SnapKey(p.content, p.post) \in DOMAIN db'
                                     /\ Len(db'[SnapKey(p.content, p.post)].comments)
                                           = results[i].comments_count
                /\ report.successful_fetches
                      = Cardinality({i \in 1..Len(results) : results[i].success})
                /\ report.total_comments_fetched = SumCounts(results, 1)]_vars
\* A bulk fetch has just failed one post for its missing credential and
\* ingested the comments of the other.
C20_Witness ==
    /\ last.op = "ingest" /\ last.entry = "bulk" /\ last.status = 200
    /\ last.report.total_posts_processed = 2
    /\ \E p \in PostedPosts(db), q \in PostedPosts(db) :
          /\ ~HasCredential(p.page)
          /\ \E i \in ResultsFor(last.report.results, p) : ~last.report.results[i].success
          /\ \E j \in ResultsFor(last.report.results, q) :
                /\ last.report.results[j].success
                /\ last.report.results[j].comments_count > 0
          /\ SnapKey(q.content, q.post) \in DOMAIN db
    /\ last.report.total_comments_fetched > 0

\* C21: on empty or whitespace-only text neither classify_comment_type nor
\* analyze_sentiment calls its service, and classify_comment_type returns
\* type general with an empty reply.
C21_BlankTextMakesNoCall ==
    (last.op = "classify" /\ IsBlank(last.text))
       => /\ ~last.routes.called /\ last.routes.type = "general" /\ last.routes.reply = ""
          /\ ~last.standalone.called /\ last.standalone.type = "general"
          /\ last.standalone.reply = ""
          /\ ~last.sentiment.called

C23_FetchRejectsBeforeRemoteCall ==
    [][(last'.op = "ingest" /\ last'.entry = "fetch")
         => LET req == last'.req
                incomplete == ~req.hasData \/ req.page = "" \/ req.post = NoId
                known == \E i \in 1..Len(Apps) : Apps[i].page_id = req.page
            IN  /\ incomplete
                     => (last'.status = 400 /\ ~last'.ok /\ ~last'.called /\ db' = db)
                /\ (~incomplete /\ ~known)
                     => (last'.status = 404 /\ ~last'.ok /\ ~last'.called /\ db' = db)]_vars
\* The endpoint has just answered 404 to a complete request for a page
\* without credential, on a store that already holds a snapshot.
C23_Witness ==
    /\ last.op = "ingest" /\ last.entry = "fetch" /\ last.status = 404
    /\ last.req.hasData /\ last.req.page = "PGX" /\ last.req.post # NoId
    /\ ~last.called
    /\ \E k \in DOMAIN db : k.kind = "comments"

\* The candidates of the store that the running invocation left out because
\* of max_replies.
Deferred(c) ==
    /\ run[1].pc = "loop"
    /\ \E i \in 1..Len(GetCommentsToReply(db)) : GetCommentsToReply(db)[i].comment_id = c
    /\ \A i \in 1..Len(run[1].cands) : run[1].cands[i].comment_id # c

\* C24: under repeated sequential runs with max_replies >= 1 and no new
\* records, a candidate deferred by max_replies is eventually taken up by a
\* loop iteration of some run.
C24_DeferredEventuallyProcessed ==
    \A c \in CommentIds : Deferred(c) ~> (run[1].ev.cid = c)

\* C25: a cleanup of comment id X changes no record that belongs to another
\* comment id: every key that does not reference exactly X is still there
\* with the value it had.
C25_CleanupLeavesOtherIds ==
    [][last'.op = "cleanup"
         => \A k \in DOMAIN db \ References(db, last'.cid) :
               k \in DOMAIN db' /\ db'[k] = db[k]]_vars

\* C26: a step of a reply run creates no Sentiment Record and changes none:
\* every sentiment key of the store after the step was there before with the
\* same value, also when the draft classifies the comment as negative.  A
\* sentiment key disappears only in an iteration that called the orphan
\* cleanup.
C26_ReplyRunKeepsSentiments ==
    [][\A r \in Runners :
         run'[r] # run[r]
            => /\ \A k \in DOMAIN db' :
                     k.kind = "sentiment" => (k \in DOMAIN db /\ db'[k] = db[k])
               /\ (\E k \in DOMAIN db : k.kind = "sentiment" /\ k \notin DOMAIN db')
                     => run'[r].ev.delete_called]_vars
\* An iteration whose draft said negative has left the comment's Sentiment
\* Record positive or neutral.
C26_Witness ==
    \E r \in Runners :
        /\ run[r].ev.draft_type = "negative"
        /\ \E k \in DOMAIN db :
              /\ k.kind = "sentiment" /\ db[k].comment_id = run[r].ev.cid
              /\ db[k].sentiment \in {"positive", "neutral"}

\* C27: over sequential runs of the reply engine the remote platform holds at
\* most one posted reply under each comment, whether or not the store write
\* after the post succeeded.
C27_AtMostOnePostPerComment ==
    \A c \in CommentIds : posted[c] <= 1

\* C28: when reply_to_comments of agents/reply.py is about to return its
\* report after a run with candidates, processed = min(total, max_replies),
\* processed = replied + cleaned_up + errors, the reply_types counts sum to
\* replied, and replied is the number of Reply Records the run wrote.
C28_ReplyReportConsistent ==
    \A r \in Runners :
        (run[r].pc = "loop" /\ run[r].variant = "routes" /\ run[r].i > Len(run[r].cands))
           => LET st == run[r].stats
              IN  /\ st.processed = (IF st.total < run[r].maxr THEN st.total ELSE run[r].maxr)
                  /\ st.processed = st.replied + st.cleaned_up + st.errors
                  /\ st.question + st.compliment + st.general = st.replied
                  /\ st.replied = Cardinality(run[r].writes)

\* C29: an ingestion call changes no key of the store but the snapshot key
\* comments:<contentId>:<postId> of a post it reports as fetched; every
\* Sentiment Record and Reply Record stays as it was, and the candidates a
\* reply run would select after the call are those it would have selected
\* before, also for a comment the new snapshot no longer holds.
C29_IngestionWritesOnlySnapshot ==
    [][last'.op = "ingest"
         => /\ \A k \in DOMAIN db :
                  k \in DOMAIN db' /\ (db'[k] # db[k] => k.kind = "comments")
            /\ \A k \in DOMAIN db' :
                  (k \notin DOMAIN db \/ db'[k] # db[k])
                     => \E x \in last'.ingested : k = SnapKey(x.content, x.post)
            /\ GetCommentsToReply(db') = GetCommentsToReply(db)]_vars
\* An ingestion call has stored a snapshot without a comment whose Sentiment
\* Record is positive or neutral and has no Reply Record; the comment is a
\* candidate.
C29_Witness ==
    /\ last.op = "ingest" /\ last.ok
    /\ \E x \in last.ingested, k \in DOMAIN db :
          /\ k.kind = "sentiment" /\ k.content = x.content /\ k.post = x.post
          /\ SnapKey(x.content, x.post) \in DOMAIN db
          /\ db[SnapKey(x.content, x.post)].comments = x.fetched
          /\ \A i \in 1..Len(x.fetched) : x.fetched[i].id # db[k].comment_id
          /\ IsCandidate(db[k], RepliedComments(db))
          /\ \E i \in 1..Len(GetCommentsToReply(db)) :
                GetCommentsToReply(db)[i].comment_id = db[k].comment_id

\* C30: in runs of the two reply agents made one after another in any order,
\* no reply is posted to a comment for which the store holds a Reply Record,
\* whichever agent wrote the record.
C30_NoPostToRepliedComment ==
    [][\A c \in CommentIds :
         posted'[c] > posted[c] => c \notin RepliedComments(db)]_vars

====
